---- MODULE Spec2Model ----
(***************************************************************************)
(* Model of arrow2-derive's schema derivation:                             *)
(*   - Input::new (arrow2_convert_derive/src/input.rs), the derivation     *)
(*     input model built from a DeriveInput and its attributes;            *)
(*   - the ArrowField / ArrowEnableVecForType implementations              *)
(*     (src/field.rs), the type capability registry.                       *)
(*                                                                         *)
(* A string literal is a sequence of lexemes: the three keywords and one   *)
(* other word are atomic runs of characters, next to the comma and the     *)
(* blank.  <<"field_only", ",", " ", "bogus">> is "field_only, bogus".     *)
(***************************************************************************)
EXTENDS Naturals, Sequences, FiniteSets

\* Largest total size of the attribute list of a DeriveInput.  An attribute
\* counts 1, plus 1 when it carries tokens that do not parse or a literal that
\* is not a string, plus the number of lexemes of its string literal.
MaxSize == 4

Keywords == {"field_only", "serialize_only", "deserialize_only"}
Lexemes == Keywords \cup {"bogus", ",", " "}

DataKinds == {"StructNamed", "StructUnnamed", "StructUnit", "Enum", "Union"}
Paths == {"arrow2_convert", "other"}

VARIABLES
    input,             \* the DeriveInput handed to Input::new
    pc,                \* position in Input::new
    traits_to_derive,  \* local of Input::new (line 27)
    fields,            \* local of Input::new (line 29)
    derives,           \* local of Input::new (line 34)
    attr_idx,          \* position of `for attr in input.attrs`
    values,            \* rest of `string.value().split(',')`
    err,               \* the abort!() diagnostic, if any
    result,            \* the returned Input, if any
    registry,          \* the impls a user crate gives for its own type Custom
    ty,                \* the field type that is resolved, outermost constructor first
    desc,              \* what the impls give for ty
    inner              \* what the impls give for the type ty wraps

derive_vars == <<input, pc, traits_to_derive, fields, derives, attr_idx, values, err, result>>
field_vars == <<registry, ty, desc, inner>>
vars == <<derive_vars, field_vars>>

(***************************************************************************)
(* The inputs.                                                             *)
(***************************************************************************)
\* What attr.parse_meta() gives for an attribute: Err, or a Meta that is a
\* Path, a List or a NameValue whose literal is a Lit::Str or another Lit.
BareAttrs ==
    { [path |-> p, meta |-> m, lit |-> "None", str |-> <<>>] :
        p \in Paths, m \in {"Path", "List"} }

TokenAttrs ==
    { [path |-> p, meta |-> "Err", lit |-> "None", str |-> <<>>] : p \in Paths }
    \cup { [path |-> p, meta |-> "NameValue", lit |-> "Other", str |-> <<>>] : p \in Paths }

StrAttrs(n) ==
    { [path |-> p, meta |-> "NameValue", lit |-> "Str", str |-> s] :
        p \in Paths, s \in [1..n -> Lexemes] }

AttrsOfSize(k) ==
    StrAttrs(k - 1) \cup (IF k = 1 THEN BareAttrs ELSE {}) \cup (IF k = 2 THEN TokenAttrs ELSE {})

AttrLists[n \in Nat] ==
    {<<>>} \cup
    UNION { { <<a>> \o l : a \in AttrsOfSize(k), l \in AttrLists[n - k] } : k \in 1..n }

FieldsOf(data) ==
    CASE data = "StructNamed" -> <<"x", "y">>
      [] data = "StructUnnamed" -> <<"0", "1">>
      [] OTHER -> <<>>

DeriveInput(d, al) ==
    [ident |-> "Point", vis |-> "pub", data |-> d, fields |-> FieldsOf(d), attrs |-> al]

(***************************************************************************)
(* Helpers of Input::new.                                                  *)
(***************************************************************************)
\* Split with "" giving no piece at all
RECURSIVE SplitDroppingEmpty(_)
SplitDroppingEmpty(s) ==
    IF s = <<>> THEN <<>>
    ELSE IF \A i \in 1..Len(s) : s[i] # ","
    THEN <<s>>
    ELSE LET c == CHOOSE i \in 1..Len(s) : s[i] = "," /\ \A j \in 1..(i - 1) : s[j] # ","
         IN  <<SubSeq(s, 1, c - 1)>> \o SplitDroppingEmpty(SubSeq(s, c + 1, Len(s)))

\* str::split(','): one more piece than there are commas; "" gives [""].
RECURSIVE Split(_)
Split(s) ==
    IF \A i \in 1..Len(s) : s[i] # ","
    THEN <<s>>
    ELSE LET c == CHOOSE i \in 1..Len(s) : s[i] = "," /\ \A j \in 1..(i - 1) : s[j] # ","
         IN  <<SubSeq(s, 1, c - 1)>> \o Split(SubSeq(s, c + 1, Len(s)))

\* str::trim()
RECURSIVE Trim(_)
Trim(s) ==
    IF s = <<>> THEN s
    ELSE IF Head(s) = " " THEN Trim(Tail(s))
    ELSE IF s[Len(s)] = " " THEN Trim(SubSeq(s, 1, Len(s) - 1))
    ELSE s

\* IsStruct with only Data::Enum sent to the abort
IsStructOrUnion(data) == data # "Enum"

\* Data::Struct(s) => ..., _ => abort!
IsStruct(data) == data \in {"StructNamed", "StructUnnamed", "StructUnit"}

\* IsRecognized without the test of the path
IsRecognizedAnyPath(attr) == attr.path \in Paths

\* meta.path().is_ident("arrow2_convert")
IsRecognized(attr) == attr.path = "arrow2_convert"

\* Meta::NameValue(MetaNameValue { lit: Lit::Str(string), .. })
IsStrNameValue(attr) == attr.meta = "NameValue" /\ attr.lit = "Str"

\* "field_only" | "serialize_only" | "deserialize_only" => (the matched str is `value`)
IsKeyword(value) == \E k \in Keywords : value = <<k>>

\* AlreadyNarrowed comparing with one of the three narrowed values only
AlreadyNarrowedToFieldOnly(traits) == traits = "FieldOnly"

\* if traits_to_derive != TraitsToDerive::All
AlreadyNarrowed(traits) == traits # "All"

\* the inner match on value
TraitsFor(value) ==
    CASE value = <<"field_only">> -> "FieldOnly"
      [] value = <<"serialize_only">> -> "SerializeOnly"
      [] value = <<"deserialize_only">> -> "DeserializeOnly"

\* The diagnostics of the four abort!() calls: the span, the format string
\* and the formatted arguments.
NoErr == [span |-> <<"none", 0>>, fmt |-> "", args |-> <<>>]
ErrNotStruct == [span |-> <<"ident", 0>>, fmt |-> "#[derive(ArrowField)] only supports structs.", args |-> <<>>]
ErrConflict(i, value) ==
    [span |-> <<"lit", i>>,
     fmt |-> "Only one of field_only, serialize-only or deserialize_only can be specified",
     args |-> <<>>]
\* ErrUnexpectedValue formatting the trimmed piece
ErrUnexpectedTrimmedValue(i, value) == [span |-> <<"lit", i>>, fmt |-> "Unexpected {}", args |-> <<Trim(value)>>]
ErrUnexpectedValue(i, value) == [span |-> <<"lit", i>>, fmt |-> "Unexpected {}", args |-> <<value>>]
ErrUnexpectedAttr(i) == [span |-> <<"meta", i>>, fmt |-> "Unexpected attribute", args |-> <<>>]

NoResult == [name |-> "", traits_to_derive |-> "", fields |-> <<>>, visibility |-> ""]

(***************************************************************************)
(* Input::new, one step per match arm and loop iteration.                  *)
(***************************************************************************)
InitDerive ==
    /\ \E d \in DataKinds, al \in AttrLists[MaxSize] : input = DeriveInput(d, al)
    /\ pc = "start"
    /\ traits_to_derive = "All"
    /\ fields = <<>>
    /\ derives = <<>>
    /\ attr_idx = 1
    /\ values = <<>>
    /\ err = NoErr
    /\ result = NoResult

Abort(e) ==
    /\ pc' = "aborted"
    /\ err' = e

\* let fields = match input.data { ... }
MatchData ==
    /\ pc = "start"
    /\ IF IsStruct(input.data)
       THEN /\ fields' = input.fields
            /\ pc' = "attrs"
            /\ err' = err
       ELSE /\ Abort(ErrNotStruct)
            /\ fields' = fields
    /\ UNCHANGED <<field_vars, input, traits_to_derive, derives, attr_idx, values, result>>

\* an attribute that does not parse, or whose path is another one: next attribute
SkipAttr ==
    /\ pc = "attrs"
    /\ attr_idx <= Len(input.attrs)
    /\ LET attr == input.attrs[attr_idx] IN
         attr.meta = "Err" \/ ~IsRecognized(attr)
    /\ attr_idx' = attr_idx + 1
    /\ UNCHANGED <<field_vars, input, pc, traits_to_derive, fields, derives, values, err, result>>

\* arrow2_convert = "...": start the loop over the pieces of the string
EnterAttr ==
    /\ pc = "attrs"
    /\ attr_idx <= Len(input.attrs)
    /\ LET attr == input.attrs[attr_idx] IN
         /\ attr.meta # "Err"
         /\ IsRecognized(attr)
         /\ IsStrNameValue(attr)
         /\ values' = Split(attr.str)
    /\ pc' = "values"
    /\ UNCHANGED <<field_vars, input, traits_to_derive, fields, derives, attr_idx, err, result>>

\* arrow2_convert in any other form: abort!(meta.span(), "Unexpected attribute")
AbortAttr ==
    /\ pc = "attrs"
    /\ attr_idx <= Len(input.attrs)
    /\ LET attr == input.attrs[attr_idx] IN
         /\ attr.meta # "Err"
         /\ IsRecognized(attr)
         /\ ~IsStrNameValue(attr)
    /\ Abort(ErrUnexpectedAttr(attr_idx))
    /\ UNCHANGED <<field_vars, input, traits_to_derive, fields, derives, attr_idx, values, result>>

\* one iteration of `for value in string.value().split(',')`
NextValue ==
    /\ pc = "values"
    /\ values # <<>>
    /\ LET value == Head(values) IN
         IF IsKeyword(value)
         THEN IF AlreadyNarrowed(traits_to_derive)
              THEN /\ Abort(ErrConflict(attr_idx, value))
                   /\ UNCHANGED <<traits_to_derive, derives, values>>
              ELSE /\ traits_to_derive' = TraitsFor(value)
                   /\ derives' = Append(derives, Trim(value))
                   /\ values' = Tail(values)
                   /\ UNCHANGED <<pc, err>>
         ELSE /\ Abort(ErrUnexpectedValue(attr_idx, value))
              /\ UNCHANGED <<traits_to_derive, derives, values>>
    /\ UNCHANGED <<field_vars, input, fields, attr_idx, result>>

\* the pieces are exhausted: next attribute
EndValues ==
    /\ pc = "values"
    /\ values = <<>>
    /\ pc' = "attrs"
    /\ attr_idx' = attr_idx + 1
    /\ UNCHANGED <<field_vars, input, traits_to_derive, fields, derives, values, err, result>>

\* Input { name, fields, visibility, traits_to_derive }
Return ==
    /\ pc = "attrs"
    /\ attr_idx > Len(input.attrs)
    /\ result' = [name |-> input.ident, traits_to_derive |-> traits_to_derive,
                  fields |-> fields, visibility |-> input.vis]
    /\ pc' = "done"
    /\ UNCHANGED <<field_vars, input, traits_to_derive, fields, derives, attr_idx, values, err>>

(***************************************************************************)
(* Input::new as a function of its argument: what it returns or how it     *)
(* aborts.                                                                 *)
(***************************************************************************)
Aborted(e) == [ok |-> FALSE, err |-> e, input |-> NoResult]
Returned(r) == [ok |-> TRUE, err |-> NoErr, input |-> r]

\* the loop over the pieces of the string of attribute i; the traits it
\* leaves, or the abort
RECURSIVE ScanValues(_, _, _)
ScanValues(vals, i, traits) ==
    IF vals = <<>> THEN [ok |-> TRUE, err |-> NoErr, traits |-> traits]
    ELSE LET value == Head(vals) IN
         IF IsKeyword(value)
         THEN IF AlreadyNarrowed(traits)
              THEN [ok |-> FALSE, err |-> ErrConflict(i, value), traits |-> traits]
              ELSE ScanValues(Tail(vals), i, TraitsFor(value))
         ELSE [ok |-> FALSE, err |-> ErrUnexpectedValue(i, value), traits |-> traits]

\* the loop over the attributes, from attribute i on
RECURSIVE ScanAttrs(_, _, _)
ScanAttrs(di, i, traits) ==
    IF i > Len(di.attrs)
    THEN Returned([name |-> di.ident, traits_to_derive |-> traits,
                   fields |-> di.fields, visibility |-> di.vis])
    ELSE LET attr == di.attrs[i] IN
         IF attr.meta = "Err" \/ ~IsRecognized(attr) THEN ScanAttrs(di, i + 1, traits)
         ELSE IF ~IsStrNameValue(attr) THEN Aborted(ErrUnexpectedAttr(i))
         ELSE LET scan == ScanValues(Split(attr.str), i, traits) IN
              IF scan.ok THEN ScanAttrs(di, i + 1, scan.traits) ELSE Aborted(scan.err)

InputNew(di) ==
    IF IsStruct(di.data) THEN ScanAttrs(di, 1, "All") ELSE Aborted(ErrNotStruct)

(***************************************************************************)
(* src/field.rs: the impls of ArrowField and ArrowEnableVecForType.        *)
(* A type is the sequence of its constructors, the outermost first:        *)
(* <<"Vec", "Option", "bool">> is Vec<Option<bool>>.                       *)
(***************************************************************************)
\* Largest number of Option/Vec constructors around a leaf type.
MaxDepth == 3

NumericLeaves == {"u8", "u16", "u32", "u64", "i8", "i16", "i32", "i64", "f32", "f64"}
BuiltinLeaves == NumericLeaves \cup {"String", "bool", "NaiveDateTime", "NaiveDate"}
\* Custom: a type of a user crate, with the impls of `registry`
Leaves == BuiltinLeaves \cup {"Custom"}

Registries == [field : BOOLEAN, nullable : BOOLEAN, vec : BOOLEAN]

Plain(kind) == [kind |-> kind]
List(item) == [kind |-> "List", item |-> item]
NoType == Plain("None")

\* Field::new(name, data_type, nullable)
FieldNew(name, data_type, nullable) == [name |-> name, data_type |-> data_type, nullable |-> nullable]
NoField == FieldNew("", NoType, FALSE)

\* impl_numeric_type!(...) and the impls for String, bool, NaiveDateTime, NaiveDate
LeafDataType(leaf) ==
    CASE leaf = "u8" -> Plain("UInt8")
      [] leaf = "u16" -> Plain("UInt16")
      [] leaf = "u32" -> Plain("UInt32")
      [] leaf = "u64" -> Plain("UInt64")
      [] leaf = "i8" -> Plain("Int8")
      [] leaf = "i16" -> Plain("Int16")
      [] leaf = "i32" -> Plain("Int32")
      [] leaf = "i64" -> Plain("Int64")
      [] leaf = "f32" -> Plain("Float32")
      [] leaf = "f64" -> Plain("Float64")
      [] leaf = "String" -> Plain("Utf8")
      [] leaf = "bool" -> Plain("Boolean")
      [] leaf = "NaiveDateTime" -> Plain("Timestamp(Nanosecond, None)")
      [] leaf = "NaiveDate" -> Plain("Date32")
      [] leaf = "Custom" -> Plain("Custom")

\* EnabledLeaves with arrow_enable_vec_for_type!(u8) added
EnabledLeavesAndU8 == {"String", "bool", "NaiveDateTime", "NaiveDate", "u8"}

\* arrow_enable_vec_for_type!(String | bool | NaiveDateTime | NaiveDate)
EnabledLeaves == {"String", "bool", "NaiveDateTime", "NaiveDate"}

\* arrow_enable_vec_for_type!(Vec<u8>)
VecU8Enabled == TRUE

\* fn is_nullable() of the trait: the default
DefaultIsNullable == FALSE

\* OptionIsNullable left to the default of the trait
OptionIsNullableByDefault == FALSE

\* fn is_nullable() of impl ArrowField for Option<T>
OptionIsNullable == TRUE

RECURSIVE ImplArrowField(_), ImplEnableVec(_), data_type(_)

\* where T: ArrowField
OptionBound(T) == ImplArrowField(T)

\* where T: ArrowField + ArrowEnableVecForType
VecBound(T) == ImplArrowField(T) /\ ImplEnableVec(T)

\* is there an impl of ArrowField for t
ImplArrowField(t) ==
    IF Len(t) = 1
    THEN IF t[1] = "Custom" THEN registry.field ELSE t[1] \in BuiltinLeaves
    ELSE IF Head(t) = "Option" THEN OptionBound(Tail(t))
    ELSE Tail(t) = <<"u8">> \/ VecBound(Tail(t))

\* OptionEnableVec without the bound T: ArrowField
OptionEnableVecUnbound(T) == ImplEnableVec(T)

\* impl<T> ArrowEnableVecForType for Option<T>
OptionEnableVec(T) == ImplArrowField(T) /\ ImplEnableVec(T)

\* impl<T> ArrowEnableVecForType for Vec<T>, and the one for Vec<u8>
VecEnableVec(T) == (T = <<"u8">> /\ VecU8Enabled) \/ (ImplArrowField(T) /\ ImplEnableVec(T))

\* is there an impl of ArrowEnableVecForType for t
ImplEnableVec(t) ==
    IF Len(t) = 1
    THEN IF t[1] = "Custom" THEN registry.vec ELSE t[1] \in EnabledLeaves
    ELSE IF Head(t) = "Option" THEN OptionEnableVec(Tail(t))
    ELSE VecEnableVec(Tail(t))

\* fn is_nullable()
is_nullable(t) ==
    IF Len(t) = 1
    THEN IF t[1] = "Custom" THEN registry.nullable ELSE DefaultIsNullable
    ELSE IF Head(t) = "Option" THEN OptionIsNullable
    ELSE DefaultIsNullable

\* fn field(name): Field::new(name, Self::data_type(), Self::is_nullable())
field(name, t) == FieldNew(name, data_type(t), is_nullable(t))

\* fn data_type() of impl ArrowField for Option<T>
OptionDataType(T) == data_type(T)

\* fn data_type() of impl ArrowField for Vec<u8>
VecU8DataType == Plain("Binary")

\* fn data_type() of impl ArrowField for Vec<T>
VecDataType(T) == List(field("item", T))

\* fn data_type()
data_type(t) ==
    IF Len(t) = 1 THEN LeafDataType(t[1])
    ELSE IF Head(t) = "Option" THEN OptionDataType(Tail(t))
    ELSE IF Tail(t) = <<"u8">> THEN VecU8DataType
    ELSE VecDataType(Tail(t))

\* What the compiler resolves for a field of type t: whether the two traits
\* are implemented and, when ArrowField is, what its functions return.
Resolve(t) ==
    IF ImplArrowField(t)
    THEN [arrow_field |-> TRUE, enable_vec |-> ImplEnableVec(t), data_type |-> data_type(t),
          is_nullable |-> is_nullable(t), field |-> field("name", t)]
    ELSE [arrow_field |-> FALSE, enable_vec |-> ImplEnableVec(t), data_type |-> NoType,
          is_nullable |-> FALSE, field |-> NoField]

NoDesc == [arrow_field |-> FALSE, enable_vec |-> FALSE, data_type |-> NoType,
           is_nullable |-> FALSE, field |-> NoField]

IdleField ==
    /\ registry = [field |-> FALSE, nullable |-> FALSE, vec |-> FALSE]
    /\ ty = <<>>
    /\ desc = NoDesc
    /\ inner = NoDesc

IdleDerive ==
    /\ input = DeriveInput("StructUnit", <<>>)
    /\ pc = "idle"
    /\ traits_to_derive = "All"
    /\ fields = <<>>
    /\ derives = <<>>
    /\ attr_idx = 1
    /\ values = <<>>
    /\ err = NoErr
    /\ result = NoResult

\* a leaf type, and the impls of the user crate: ArrowField only with its
\* is_nullable left to the default or overridden, the marker, both, none
InitField ==
    /\ registry \in { r \in Registries : r.nullable => r.field }
    /\ \E leaf \in Leaves : ty = <<leaf>>
    /\ desc = Resolve(ty)
    /\ inner = NoDesc

\* Option<ty>
WrapOption ==
    /\ Len(ty) <= MaxDepth
    /\ ty' = <<"Option">> \o ty
    /\ desc' = Resolve(ty')
    /\ inner' = desc
    /\ UNCHANGED <<registry, derive_vars>>

\* Vec<ty>
WrapVec ==
    /\ Len(ty) <= MaxDepth
    /\ ty' = <<"Vec">> \o ty
    /\ desc' = Resolve(ty')
    /\ inner' = desc
    /\ UNCHANGED <<registry, derive_vars>>

Init == InitDerive /\ IdleField

Next ==
    \/ MatchData
    \/ SkipAttr
    \/ EnterAttr
    \/ AbortAttr
    \/ NextValue
    \/ EndValues
    \/ Return

Spec == Init /\ [][Next]_vars

FieldInit == InitField /\ IdleDerive

FieldNext ==
    \/ WrapOption
    \/ WrapVec

SpecField == FieldInit /\ [][FieldNext]_vars

(***************************************************************************)
(* Properties of Input::new, checked under Spec.                           *)
(***************************************************************************)
NarrowedTraits == {"FieldOnly", "SerializeOnly", "DeserializeOnly"}
ConflictText == "Only one of field_only, serialize-only or deserialize_only can be specified"
NotStructText == "#[derive(ArrowField)] only supports structs."
KeywordPieces == { <<k>> : k \in Keywords }
StructKinds == {"StructNamed", "StructUnnamed", "StructUnit"}

\* the attribute the loop is at
AtAttr == attr_idx \in 1..Len(input.attrs)
CurrentAttr == input.attrs[attr_idx]
IsDirective(attr) == attr.path = "arrow2_convert"
IsEmptyDirective(attr) ==
    IsDirective(attr) /\ attr.meta = "NameValue" /\ attr.lit = "Str" /\ attr.str = <<>>

\* C1: traits_to_derive changes only from All to one of FieldOnly,
\* SerializeOnly, DeserializeOnly, hence at most once and never back to All;
\* a piece that is one of the three keywords, met while traits_to_derive is no
\* longer All, aborts with the "Only one of ..." diagnostic, whether it
\* repeats the keyword already applied or sits in a later attribute.
C1_NarrowsAtMostOnce ==
    [][ /\ (traits_to_derive' # traits_to_derive
              => traits_to_derive = "All" /\ traits_to_derive' \in NarrowedTraits)
        /\ (pc = "values" /\ values # <<>> /\ Head(values) \in KeywordPieces
              /\ traits_to_derive # "All"
              => pc' = "aborted" /\ err'.fmt = ConflictText /\ traits_to_derive' = traits_to_derive)
        /\ (pc = "aborted" => pc' = "aborted")
      ]_vars

\* C1 witness: the keyword already applied by the first attribute is met again
\* in the second attribute, and Input::new has aborted on it.
C1_Witness ==
    /\ pc = "aborted"
    /\ err.fmt = ConflictText
    /\ attr_idx = 2
    /\ traits_to_derive = "FieldOnly"
    /\ Head(values) = <<"field_only">>

\* C2 as claimed: arrow2_convert = "" gives no piece, raises no error and
\* Input::new returns with traits_to_derive = All.
C2_EmptyAccepted ==
    /\ (pc = "values" /\ IsEmptyDirective(CurrentAttr) => values = <<>>)
    /\ (pc = "aborted" /\ input.data \in StructKinds /\ AtAttr => ~IsEmptyDirective(CurrentAttr))

\* C2 amended: arrow2_convert = "" gives one piece, the empty one; it is not a
\* keyword, so Input::new aborts with "Unexpected {}" on the empty piece and
\* never returns an Input for a struct that carries such a directive.
C2_EmptyRejected ==
    /\ (pc = "values" /\ IsEmptyDirective(CurrentAttr) => values = << <<>> >>)
    /\ (pc = "aborted" /\ input.data \in StructKinds /\ AtAttr /\ IsEmptyDirective(CurrentAttr)
          => err = [span |-> <<"lit", attr_idx>>, fmt |-> "Unexpected {}", args |-> << <<>> >>])
    /\ (pc = "done" => \A i \in 1..Len(input.attrs) :
                          input.attrs[i].meta # "Err" => ~IsEmptyDirective(input.attrs[i]))

\* C2 witness: Input::new has aborted at an arrow2_convert = "" directive.
C2_Witness ==
    /\ pc = "aborted"
    /\ input.data \in StructKinds
    /\ AtAttr
    /\ IsEmptyDirective(CurrentAttr)
    /\ err.fmt = "Unexpected {}"

\* the piece without its leading and trailing blanks
RECURSIVE Stripped(_)
Stripped(piece) ==
    IF piece # <<>> /\ Head(piece) = " " THEN Stripped(Tail(piece))
    ELSE IF piece # <<>> /\ piece[Len(piece)] = " " THEN Stripped(SubSeq(piece, 1, Len(piece) - 1))
    ELSE piece

\* C3 as claimed: a piece is compared with the keywords after trimming, so
\* the "Unexpected {}" diagnostic is only raised for a piece that, trimmed, is
\* none of the three keywords.
C3_TrimmedBeforeMatch ==
    pc = "aborted" /\ err.fmt = "Unexpected {}" => Stripped(err.args[1]) \notin KeywordPieces

\* C4 as claimed: every definition that is not a struct with named fields is
\* rejected with the "only supports structs" diagnostic, and no Input is returned.
C4_OnlyNamedStructs ==
    input.data # "StructNamed" /\ pc \notin {"start", "idle"}
        => pc = "aborted" /\ err.fmt = NotStructText /\ result = NoResult

\* C4 amended: every enum and every union is rejected with the "only supports
\* structs" diagnostic at the identifier, before any attribute is looked at
\* and whatever the attributes are, and no Input is returned; a struct without
\* named fields (tuple or unit struct) is never rejected with that diagnostic.
C4_OnlyStructs ==
    /\ (input.data \in {"Enum", "Union"} /\ pc \notin {"start", "idle"}
          => /\ pc = "aborted"
             /\ err = [span |-> <<"ident", 0>>, fmt |-> NotStructText, args |-> <<>>]
             /\ result = NoResult
             /\ attr_idx = 1 /\ values = <<>> /\ traits_to_derive = "All")
    /\ (input.data \in {"StructNamed", "StructUnnamed", "StructUnit"} => err.fmt # NotStructText)
    /\ (input.data \in {"StructUnnamed", "StructUnit"} /\ pc = "done"
          => result.fields = input.fields /\ result.name = input.ident)

\* C4 witness: a union that carries a directive with an unknown value has
\* been rejected as not being a struct.
C4_Witness ==
    /\ input.data = "Union"
    /\ pc = "aborted"
    /\ err.fmt = NotStructText
    /\ \E i \in 1..Len(input.attrs) :
          IsDirective(input.attrs[i]) /\ input.attrs[i].str = <<"bogus">>

\* C5 as claimed: an arrow2_convert attribute whose value is not a single
\* string literal is never skipped, so Input::new returns only when there is none.
C5_MalformedNeverSkipped ==
    pc = "done" =>
        \A i \in 1..Len(input.attrs) :
            IsDirective(input.attrs[i])
                => input.attrs[i].meta = "NameValue" /\ input.attrs[i].lit = "Str"

\* C6 as claimed: every diagnostic names the struct (its name is in the
\* message, or the diagnostic points at the name), and a diagnostic raised on
\* a piece of the string carries that piece.
C6_NamesTypeAndToken ==
    pc = "aborted" =>
        /\ (err.span[1] = "ident" \/ \E k \in 1..Len(err.args) : err.args[k] = <<input.ident>>)
        /\ (err.span[1] = "lit" => err.args = <<Head(values)>>)

\* C6 amended: every diagnostic carries a location, the identifier of the
\* struct for "only supports structs" and the attribute at hand for the three
\* others; no message contains the name of the struct; "Unexpected {}" carries
\* the exact piece, blanks included; the "Only one of ..." and "Unexpected
\* attribute" messages are fixed texts without the piece.
C6_LocatedDiagnostics ==
    pc = "aborted" =>
        /\ \A k \in 1..Len(err.args) : err.args[k] # <<input.ident>>
        /\ \/ err = [span |-> <<"ident", 0>>, fmt |-> NotStructText, args |-> <<>>]
           \/ /\ AtAttr
              /\ \/ err = [span |-> <<"meta", attr_idx>>, fmt |-> "Unexpected attribute", args |-> <<>>]
                 \/ err = [span |-> <<"lit", attr_idx>>, fmt |-> ConflictText, args |-> <<>>]
                 \/ err = [span |-> <<"lit", attr_idx>>, fmt |-> "Unexpected {}", args |-> <<Head(values)>>]
        /\ (err.fmt = "Unexpected {}" <=> err.span[1] = "lit" /\ Head(values) \notin KeywordPieces)
        /\ (err.fmt = ConflictText <=> err.span[1] = "lit" /\ Head(values) \in KeywordPieces)

\* C6 witness: Input::new has aborted on an unknown piece that has a blank
\* around it.
C6_Witness ==
    /\ pc = "aborted"
    /\ err.fmt = "Unexpected {}"
    /\ Head(values) # Stripped(Head(values))
    /\ Stripped(Head(values)) # <<>>

\* the attributes of the input whose path is arrow2_convert, in order
Directives(di) == [di EXCEPT !.attrs = SelectSeq(di.attrs, IsDirective)]

\* C7: Input::new gives for an input what it gives for the same input without
\* its attributes of another path: the same Input when it returns, the same
\* diagnostic text and arguments when it aborts; it never aborts at such an
\* attribute, and a struct without any arrow2_convert attribute gives All.
C7_OtherPathsIgnored ==
    LET ref == InputNew(Directives(input)) IN
    /\ (pc = "done" => ref.ok /\ ref.input = result)
    /\ (pc = "aborted" => /\ ~ref.ok
                          /\ ref.err.fmt = err.fmt
                          /\ ref.err.args = err.args
                          /\ (err.span[1] # "ident" => IsDirective(CurrentAttr)))
    /\ (pc = "done" /\ Directives(input).attrs = <<>> => result.traits_to_derive = "All")
    /\ (pc = "aborted" /\ Directives(input).attrs = <<>> => input.data \notin StructKinds)

\* C7 witness: Input::new has returned FieldOnly for a struct whose directive
\* stands between a list attribute and an unparsable attribute of other paths.
C7_Witness ==
    /\ pc = "done"
    /\ result.traits_to_derive = "FieldOnly"
    /\ Len(input.attrs) = 3
    /\ input.attrs[1].path = "other" /\ input.attrs[1].meta = "List"
    /\ input.attrs[3].path = "other"

(***************************************************************************)
(* Properties of the impls of src/field.rs, checked under SpecField.       *)
(***************************************************************************)
Wrapped == Len(ty) > 1
Wraps(constructor) == Wrapped /\ Head(ty) = constructor
Leaf == ty[Len(ty)]

\* C8: for every T that implements ArrowField, Option<T> implements it with
\* is_nullable() = true and the data_type() of T, whether or not T is itself
\* nullable; field(name) of Option<T> is (name, data_type of T, true); and
\* Option<Option<T>> gives exactly what Option<T> gives.
C8_Optional ==
    /\ (Wraps("Option") /\ inner.arrow_field
          => /\ desc.arrow_field
             /\ desc.is_nullable = TRUE
             /\ desc.data_type = inner.data_type
             /\ desc.field = [name |-> "name", data_type |-> inner.data_type, nullable |-> TRUE])
    /\ (Wraps("Option") /\ inner.arrow_field /\ Len(ty) > 2 /\ ty[2] = "Option"
          => desc.data_type = inner.data_type /\ desc.is_nullable = inner.is_nullable
             /\ desc.field = inner.field)

\* C8 witness: Option<Option<T>> for a T that implements ArrowField.
C8_Witness ==
    /\ Wraps("Option")
    /\ Len(ty) > 2 /\ ty[2] = "Option"
    /\ inner.arrow_field /\ inner.is_nullable
    /\ desc.arrow_field /\ desc.is_nullable

\* VectorEnablement of a type made of a built-in leaf, as the specification
\* grants it: to String, bool, the two temporal types and Vec<u8>, and to
\* every Option and Vec around them.
GrantedLeaves == {"String", "bool", "NaiveDateTime", "NaiveDate"}
HasVectorEnablement(t) ==
    \/ t[Len(t)] \in GrantedLeaves
    \/ Len(t) > 1 /\ t[Len(t)] = "u8" /\ t[Len(t) - 1] = "Vec"
BuiltinNames ==
    {"u8", "u16", "u32", "u64", "i8", "i16", "i32", "i64", "f32", "f64",
     "String", "bool", "NaiveDateTime", "NaiveDate"}

\* C9: over the built-in leaves, Vec<T> is Binary when T is u8, is
\* List(field("item", data_type of T, nullable)) with nullable true exactly
\* when T is an Option when T has VectorEnablement, and has no impl of
\* ArrowField for any other T (the numeric leaves, Option<u8>); Vec<T> is
\* never nullable.
C9_Sequence ==
    Wraps("Vec") /\ Leaf \in BuiltinNames =>
        /\ IF Tail(ty) = <<"u8">>
           THEN desc.arrow_field /\ desc.data_type = [kind |-> "Binary"]
           ELSE IF HasVectorEnablement(Tail(ty))
           THEN /\ desc.arrow_field
                /\ inner.arrow_field
                /\ desc.data_type =
                     [kind |-> "List",
                      item |-> [name |-> "item", data_type |-> inner.data_type,
                                nullable |-> (ty[2] = "Option")]]
           ELSE ~desc.arrow_field
        /\ ~desc.is_nullable

\* C9 witness: Vec<Option<T>> resolved to a list whose item is nullable.
C9_Witness ==
    /\ Wraps("Vec")
    /\ Len(ty) > 2 /\ ty[2] = "Option"
    /\ Leaf \in BuiltinNames
    /\ desc.arrow_field
    /\ desc.data_type.kind = "List"
    /\ desc.data_type.item.nullable

\* C10 as claimed: Option<T> has the marker exactly when T has it, Vec<T> has
\* the marker exactly when T has it, and Option<T> implements ArrowField
\* whenever T does, with or without the marker.
C10_MarkerIff ==
    /\ (Wrapped => desc.enable_vec = inner.enable_vec)
    /\ (Wraps("Option") /\ inner.arrow_field => desc.arrow_field)

\* C10 amended: for T that implements ArrowField, Option<T> has the marker
\* exactly when T has it, and Vec<T> has it exactly when T has it or T is u8
\* (Vec<u8> is granted the marker although u8 is not); for T that does not
\* implement ArrowField neither has it; Option<T> implements ArrowField
\* exactly when T does, with or without the marker.
C10_MarkerPropagates ==
    /\ (Wraps("Option") => desc.enable_vec = (inner.arrow_field /\ inner.enable_vec))
    /\ (Wraps("Vec") =>
          desc.enable_vec = (Tail(ty) = <<"u8">> \/ (inner.arrow_field /\ inner.enable_vec)))
    /\ (Wraps("Option") => desc.arrow_field = inner.arrow_field)

\* C10 witness: Vec<u8> has the marker, u8 has not.
C10_Witness ==
    /\ ty = <<"Vec", "u8">>
    /\ desc.enable_vec
    /\ ~inner.enable_vec

====
